---- MODULE Spec2Model ----
(***************************************************************************)
(* Bulk image uploader: the matching library (app/lib/matching.ts), the    *)
(* upload API route (action of app/routes/app.api.upload.tsx) and the      *)
(* client orchestrator handleUpload of the Index component.                *)
(*                                                                         *)
(* A filename is a sequence of one-character strings, so that the          *)
(* extension stripping and the lower-casing of the library are computed,   *)
(* not assumed.                                                            *)
(***************************************************************************)
EXTENDS Integers, Sequences, FiniteSets, TLC

(***************************************************************************)
(* Bounds of the model.                                                    *)
(***************************************************************************)
\* longest file selection (drop / file input) handed to processFiles
MaxSelect == 2
\* longest image list the model lets processFiles build
MaxImages == 2
\* longest base name of the file names handed to the library functions
MaxStemLen == 2
\* longest image list and longest product list handed to matchImagesToProducts
MaxMatchFiles == 2
MaxMatchProducts == 3
\* longest image list and product list of the repeated calls of
\* matchImagesToProducts
MaxRematchLen == 1

(***************************************************************************)
(* Strings.                                                                *)
(***************************************************************************)
\* String.prototype.toLowerCase on one character
LowerChar(c) ==
    CASE c = "A" -> "a"
      [] c = "B" -> "b"
      [] c = "C" -> "c"
      [] c = "P" -> "p"
      [] c = "N" -> "n"
      [] c = "G" -> "g"
      [] c = "J" -> "j"
      [] c = "I" -> "i"
      [] c = "F" -> "f"
      [] c = "E" -> "e"
      [] c = "W" -> "w"
      [] c = "M" -> "m"
      [] OTHER -> c

ToLowerCase(s) == [i \in 1..Len(s) |-> LowerChar(s[i])]

(***************************************************************************)
(* app/lib/matching.ts                                                     *)
(***************************************************************************)
SUPPORTED_EXTENSIONS ==
    << <<".", "p", "n", "g">>,
       <<".", "j", "p", "g">>,
       <<".", "j", "p", "e", "g">>,
       <<".", "w", "e", "b", "p">>,
       <<".", "g", "i", "f">> >>

MAX_FILE_SIZE_BYTES == 20 * 1024 * 1024

\* faulty variant: the pattern without the 'i' flag
AltMatchesCaseSensitive(alt, suf) ==
    /\ Len(suf) = Len(alt)
    /\ \A k \in 1..Len(alt) :
          \/ alt[k] = "."
          \/ suf[k] = alt[k]

\* One alternative of the pattern built by
\*   new RegExp(`(${SUPPORTED_EXTENSIONS.join('|')})$`, 'i')
\* matched against the suffix suf: the '.' of the joined source is the regular
\* expression's wildcard, every other character is compared ignoring case.
AltMatches(alt, suf) ==
    /\ Len(suf) = Len(alt)
    /\ \A k \in 1..Len(alt) :
          \/ alt[k] = "."
          \/ LowerChar(suf[k]) = alt[k]

Suffix(s, n) == SubSeq(s, Len(s) - n + 1, Len(s))

\* The start (1-based) of the leftmost match of the $-anchored alternation, or
\* 0 when there is none.
ExtensionMatchStart(filename) ==
    LET starts == { p \in 1..Len(filename) :
                      \E a \in 1..Len(SUPPORTED_EXTENSIONS) :
                         AltMatches(SUPPORTED_EXTENSIONS[a],
                                    Suffix(filename, Len(filename) - p + 1)) }
    IN  IF starts = {} THEN 0
        ELSE CHOOSE p \in starts : \A q \in starts : p <= q

extractHandleFromFilename(filename) ==
    LET p == ExtensionMatchStart(filename)
    IN  ToLowerCase(IF p = 0 THEN filename ELSE SubSeq(filename, 1, p - 1))

\* file.name.split('.').pop(): the part after the last '.', the whole name
\* when it has none
LastSegment(name) ==
    LET dots == { i \in 1..Len(name) : name[i] = "." }
    IN  IF dots = {} THEN name
        ELSE LET d == CHOOSE i \in dots : \A j \in dots : j <= i
             IN  SubSeq(name, d + 1, Len(name))

InExtensions(ext) == \E a \in 1..Len(SUPPORTED_EXTENSIONS) : SUPPORTED_EXTENSIONS[a] = ext

\* faulty variant: the size is checked before the extension
validateImageFileSizeFirst(file) ==
    LET extension == <<".">> \o ToLowerCase(LastSegment(file.name))
    IN  IF file.size > MAX_FILE_SIZE_BYTES
        THEN [valid |-> FALSE, error |-> "File too large"]
        ELSE IF ~InExtensions(extension)
        THEN [valid |-> FALSE, error |-> "Unsupported file type"]
        ELSE [valid |-> TRUE, error |-> ""]

\* faulty variant: a file of exactly MAX_FILE_SIZE_BYTES is too large
validateImageFileOffByOne(file) ==
    LET extension == <<".">> \o ToLowerCase(LastSegment(file.name))
    IN  IF ~InExtensions(extension)
        THEN [valid |-> FALSE, error |-> "Unsupported file type"]
        ELSE IF file.size >= MAX_FILE_SIZE_BYTES
        THEN [valid |-> FALSE, error |-> "File too large"]
        ELSE [valid |-> TRUE, error |-> ""]

validateImageFile(file) ==
    LET extension == <<".">> \o ToLowerCase(LastSegment(file.name))
    IN  IF ~InExtensions(extension)
        THEN [valid |-> FALSE, error |-> "Unsupported file type"]
        ELSE IF file.size > MAX_FILE_SIZE_BYTES
        THEN [valid |-> FALSE, error |-> "File too large"]
        ELSE [valid |-> TRUE, error |-> ""]

\* absent product of a MatchResult (null)
NullProduct == [id |-> "null", handle |-> <<>>]

\* faulty variant: a handle already in the map keeps its first product
RECURSIVE ProductsByHandleFirstWins(_)
ProductsByHandleFirstWins(products) ==
    IF products = <<>> THEN << >>
    ELSE LET n    == Len(products)
             prev == ProductsByHandleFirstWins(SubSeq(products, 1, n - 1))
             key  == ToLowerCase(products[n].handle)
         IN  [k \in (DOMAIN prev) \cup {key} |->
                 IF k \in DOMAIN prev THEN prev[k] ELSE products[n]]

\* productsByHandle after the loop over products: a later product with the
\* same lower-cased handle overwrites the earlier one (Map.set)
RECURSIVE ProductsByHandle(_)
ProductsByHandle(products) ==
    IF products = <<>> THEN << >>
    ELSE LET n    == Len(products)
             prev == ProductsByHandle(SubSeq(products, 1, n - 1))
             key  == ToLowerCase(products[n].handle)
         IN  [k \in (DOMAIN prev) \cup {key} |->
                 IF k = key THEN products[n] ELSE prev[k]]

MapGet(map, key) == IF key \in DOMAIN map THEN map[key] ELSE NullProduct

\* faulty variant: a file without a product gets no result
matchImagesToProductsMatchedOnly(images, products) ==
    LET productsByHandle == ProductsByHandle(products)
        all == [i \in 1..Len(images) |->
                  LET handle  == extractHandleFromFilename(images[i].name)
                      product == MapGet(productsByHandle, handle)
                  IN  [image   |-> images[i],
                       product |-> product,
                       matched |-> product # NullProduct,
                       handle  |-> handle]]
        results == SelectSeq(all, LAMBDA r : r.matched)
    IN  [total     |-> Len(images),
         matched   |-> Len(results),
         unmatched |-> Len(images) - Len(results),
         results   |-> results]

\* faulty variant: matchedCount counts the products matched, not the results
matchImagesToProductsCountingProducts(images, products) ==
    LET productsByHandle == ProductsByHandle(products)
        results == [i \in 1..Len(images) |->
                      LET handle  == extractHandleFromFilename(images[i].name)
                          product == MapGet(productsByHandle, handle)
                      IN  [image   |-> images[i],
                           product |-> product,
                           matched |-> product # NullProduct,
                           handle  |-> handle]]
        matchedCount == Cardinality({ results[i].product :
                                        i \in { j \in 1..Len(images) : results[j].matched } })
    IN  [total     |-> Len(images),
         matched   |-> matchedCount,
         unmatched |-> Len(images) - matchedCount,
         results   |-> results]

matchImagesToProducts(images, products) ==
    LET productsByHandle == ProductsByHandle(products)
        results == [i \in 1..Len(images) |->
                      LET handle  == extractHandleFromFilename(images[i].name)
                          product == MapGet(productsByHandle, handle)
                      IN  [image   |-> images[i],
                           product |-> product,
                           matched |-> product # NullProduct,
                           handle  |-> handle]]
        matchedCount == Cardinality({ i \in 1..Len(images) : results[i].matched })
    IN  [total     |-> Len(images),
         matched   |-> matchedCount,
         unmatched |-> Len(images) - matchedCount,
         results   |-> results]

\* faulty variant: the unmatched group is not filtered
groupMatchResultsUnfiltered(results) ==
    [matched   |-> SelectSeq(results, LAMBDA r : r.matched),
     unmatched |-> results]

groupMatchResults(results) ==
    [matched   |-> SelectSeq(results, LAMBDA r : r.matched),
     unmatched |-> SelectSeq(results, LAMBDA r : ~r.matched)]

(***************************************************************************)
(* The session's inputs: the draft products of the loader and the files    *)
(* the user has at hand.                                                   *)
(***************************************************************************)
\* loader data (useLoaderData): the draft products, fetched once
Products ==
    << [id |-> "gid://Product/1", handle |-> <<"a">>],
       [id |-> "gid://Product/2", handle |-> <<"b">>] >>

\* File objects of the browser: name, size, type and the bytes (content)
FileA    == [name |-> <<"a", ".", "p", "n", "g">>, size |-> 1024,
             type |-> "image/png", content |-> "bytes-1"]
FileA2   == [name |-> <<"a", ".", "p", "n", "g">>, size |-> 1024,
             type |-> "image/png", content |-> "bytes-2"]
FileB    == [name |-> <<"B", ".", "J", "P", "G">>, size |-> MAX_FILE_SIZE_BYTES,
             type |-> "", content |-> "bytes-3"]
FileC    == [name |-> <<"c", ".", "g", "i", "f">>, size |-> 1024,
             type |-> "image/gif", content |-> "bytes-4"]
FileBmp  == [name |-> <<"b", ".", "b", "m", "p">>, size |-> 1024,
             type |-> "image/bmp", content |-> "bytes-5"]
FileBig  == [name |-> <<"b", ".", "p", "n", "g">>, size |-> MAX_FILE_SIZE_BYTES + 1,
             type |-> "image/png", content |-> "bytes-6"]

\* the files the user of one session can pick from: two matched and one
\* unmatched image; two files of one name; a valid and two invalid files
Disks ==
    { {FileA, FileB, FileC},
      {FileA, FileA2, FileB},
      {FileA, FileBmp, FileBig} }

\* the FileLists of one drop or one file-input change: distinct File objects
SelectionsOf ==
    [d \in Disks |->
        { sel \in UNION { [1..n -> d] : n \in 1..MaxSelect } :
            \A x, y \in 1..Len(sel) : x # y => sel[x] # sel[y] }]

\* the values of uploadProgress: "" and the three texts of handleUpload
NoProgress == [text |-> "", current |-> 0, total |-> 0, filename |-> <<>>]
Preparing  == [NoProgress EXCEPT !.text = "Preparing uploads..."]
Attaching  == [NoProgress EXCEPT !.text = "Attaching images to products..."]
Uploading(current, total, filename) ==
    [text |-> "Uploading", current |-> current, total |-> total, filename |-> filename]

\* a response body not (yet) read: stagedData / attachData before their await
NoResponse ==
    [received |-> FALSE, success |-> FALSE, error |-> "", targets |-> <<>>,
     results |-> <<>>]

\* no call of the library under observation
LibIdle == [op |-> "none", args |-> <<>>, value |-> <<>>, done |-> FALSE]

(***************************************************************************)
(* State.                                                                  *)
(***************************************************************************)
VARIABLES
    disk,              \* the files the user can select in this session
    images,            \* useState<ImageFile[]>
    matchResults,      \* useState<MatchResult[]>
    uploadResults,     \* useState<UploadResult[]>
    errors,            \* useState<string[]>
    uploadProgress,    \* useState<string>
    isUploadingState,  \* useState(false)
    fileMapRef,        \* useRef<Map<string, File>>: filename -> File
    pc,                \* where the handleUpload invocation stands
    uploadRequests,    \* handleUpload: the pairs submitted in phase 1
    stagedData,        \* handleUpload: the body of the slot response
    targets,           \* handleUpload: the staged targets of phase 1
    i,                 \* handleUpload: the slot of the loop of phase 2 (from 1)
    successfulUploads, \* handleUpload: the slots whose transfer succeeded
    attachData,        \* handleUpload: the body of the attach response
    inFlight,          \* the fetch calls issued and not yet settled
    netLog,            \* the fetch calls the current batch has issued, in order
    transferLog,       \* per slot the loop of phase 2 has handled, the branch taken
    toasts,            \* shopify.toast.show calls of the current batch
    lib                \* a call of app/lib/matching.ts: operation, arguments, value

uiVars    == <<disk, images, matchResults, errors, fileMapRef>>
localVars == <<uploadRequests, stagedData, targets, i, successfulUploads, attachData>>
batchVars == <<pc, uploadRequests, stagedData, targets, i, successfulUploads,
               attachData, inFlight, netLog, transferLog, toasts>>
vars == <<disk, images, matchResults, uploadResults, errors, uploadProgress,
          isUploadingState, fileMapRef, pc, uploadRequests, stagedData, targets, i,
          successfulUploads, attachData, inFlight, netLog, transferLog, toasts,
          lib>>

Init ==
    /\ disk \in Disks
    /\ images = <<>>
    /\ matchResults = <<>>
    /\ uploadResults = <<>>
    /\ errors = <<>>
    /\ uploadProgress = NoProgress
    /\ isUploadingState = FALSE
    /\ fileMapRef = << >>
    /\ pc = "Idle"
    /\ uploadRequests = <<>>
    /\ stagedData = NoResponse
    /\ targets = <<>>
    /\ i = 0
    /\ successfulUploads = <<>>
    /\ attachData = NoResponse
    /\ inFlight = <<>>
    /\ netLog = <<>>
    /\ transferLog = <<>>
    /\ toasts = <<>>
    /\ lib = LibIdle

\* pc is "Idle" (no invocation), "RequestingSlots", "TransferringItems",
\* "AttachingMedia" (suspended at the await of that phase), and "Completed" or
\* "Failed": the invocation is past its finally block, normally or through the
\* outer catch, and has not returned yet. No event handler runs before it has.
Returning == pc \in {"Completed", "Failed"}

(***************************************************************************)
(* Index component: derived values and the file list handlers.             *)
(***************************************************************************)
\* the effect that recomputes the match results when images change
MatchEffect(imgs) ==
    IF Len(imgs) > 0 /\ Len(Products) > 0
    THEN matchImagesToProducts(imgs, Products).results
    ELSE <<>>

\* const isUploading = fetcher.state === "submitting" || isUploadingState;
\* the fetcher is never submitted, so its state stays "idle"
isUploading == isUploadingState

matchedCount == Len(SelectSeq(matchResults, LAMBDA r : r.matched))

\* faulty variant: the Upload button stays enabled while a batch is in flight
UploadDisabledIgnoringUpload == matchedCount = 0

\* disabled={matchedCount === 0 || isUploading} of the Upload button
UploadDisabled == matchedCount = 0 \/ isUploading

MapSet(map, key, value) ==
    [k \in (DOMAIN map) \cup {key} |-> IF k = key THEN value ELSE map[k]]

\* faulty variant: the first file that fails validation ends the loop
RECURSIVE ProcessLoopAbortOnInvalid(_, _, _)
ProcessLoopAbortOnInvalid(files, n, fmap) ==
    IF n = 0 THEN [fileMap |-> fmap, validFiles |-> <<>>, newErrors |-> <<>>]
    ELSE LET prev       == ProcessLoopAbortOnInvalid(files, n - 1, fmap)
             file       == files[n]
             validation == validateImageFile(file)
         IN  IF Len(prev.newErrors) > 0 THEN prev
             ELSE IF validation.valid
             THEN [fileMap    |-> MapSet(prev.fileMap, file.name, file),
                   validFiles |-> Append(prev.validFiles,
                                         [name |-> file.name, size |-> file.size,
                                          type |-> file.type, file |-> file]),
                   newErrors  |-> prev.newErrors]
             ELSE [fileMap    |-> prev.fileMap,
                   validFiles |-> prev.validFiles,
                   newErrors  |-> <<[name |-> file.name, error |-> validation.error]>>]

\* the loop of processFiles over the first n files of the selection:
\* the file map, the valid files and the errors it has built
RECURSIVE ProcessLoop(_, _, _)
ProcessLoop(files, n, fmap) ==
    IF n = 0 THEN [fileMap |-> fmap, validFiles |-> <<>>, newErrors |-> <<>>]
    ELSE LET prev       == ProcessLoop(files, n - 1, fmap)
             file       == files[n]
             validation == validateImageFile(file)
         IN  IF validation.valid
             THEN [fileMap    |-> MapSet(prev.fileMap, file.name, file),
                   validFiles |-> Append(prev.validFiles,
                                         [name |-> file.name, size |-> file.size,
                                          type |-> file.type, file |-> file]),
                   newErrors  |-> prev.newErrors]
             ELSE [fileMap    |-> prev.fileMap,
                   validFiles |-> prev.validFiles,
                   newErrors  |-> Append(prev.newErrors,
                                         [name |-> file.name, error |-> validation.error])]

\* setImages((prev) => [...prev, ...uniqueNewFiles])
AddUnique(prev, validFiles) ==
    LET existingNames == { prev[k].name : k \in 1..Len(prev) }
    IN  prev \o SelectSeq(validFiles, LAMBDA f : f.name \notin existingNames)

\* handleDrop / handleFileInput -> processFiles(files)
processFiles(files) ==
    LET done == ProcessLoop(files, Len(files), fileMapRef)
        next == IF Len(done.validFiles) > 0
                THEN AddUnique(images, done.validFiles) ELSE images
    IN  /\ ~Returning
        /\ Len(next) <= MaxImages
        /\ fileMapRef' = done.fileMap
        /\ errors' = IF Len(done.newErrors) > 0 THEN done.newErrors ELSE errors
        /\ images' = next
        /\ matchResults' = MatchEffect(next)
        /\ UNCHANGED <<lib, disk, uploadResults, uploadProgress, isUploadingState, batchVars>>

\* setTimeout(() => setErrors([]), 5000), or the banner's onDismiss
ClearErrors ==
    /\ ~Returning
    /\ errors # <<>>
    /\ errors' = <<>>
    /\ UNCHANGED <<lib, disk, images, matchResults, uploadResults, uploadProgress,
                   isUploadingState, fileMapRef, batchVars>>

\* the Remove button of a row of the match table
handleRemoveImage(imageName) ==
    /\ ~Returning
    /\ \E k \in 1..Len(matchResults) : matchResults[k].image.name = imageName
    /\ images' = SelectSeq(images, LAMBDA f : f.name # imageName)
    /\ matchResults' = MatchEffect(images')
    /\ UNCHANGED <<lib, disk, uploadResults, errors, uploadProgress, isUploadingState,
                   fileMapRef, batchVars>>

\* the Clear All button, rendered while images.length > 0
handleClearAll ==
    /\ ~Returning
    /\ Len(images) > 0
    /\ images' = <<>>
    /\ matchResults' = <<>>
    /\ uploadResults' = <<>>
    /\ UNCHANGED <<lib, disk, errors, uploadProgress, isUploadingState, fileMapRef,
                   batchVars>>

(***************************************************************************)
(* The API route: action of app.api.upload.tsx, as the function from a     *)
(* request and what Shopify does to the response body.                     *)
(***************************************************************************)
\* what Shopify answers to stagedUploadsCreate without user errors: one
\* staged target per input, in input order
StagedTargets(stagedInput) ==
    [k \in 1..Len(stagedInput) |->
        [url |-> k, resourceUrl |-> k,
         parameters |-> <<[name |-> "key", value |-> k]>>]]

\* faulty variant: the staged targets are paired with the requested items in
\* reverse order
ActionGetUploadUrlsReversed(uploads, shopify) ==
    LET stagedInput == [k \in 1..Len(uploads) |->
                          [filename |-> uploads[k].filename,
                           mimeType |-> uploads[k].mimeType,
                           fileSize |-> uploads[k].fileSize,
                           resource |-> "IMAGE"]]
        staged == StagedTargets(stagedInput)
    IN  CASE shopify = "throws" ->
               [NoResponse EXCEPT !.received = TRUE, !.error = "graphql error"]
          [] shopify = "userErrors" ->
               [NoResponse EXCEPT !.received = TRUE, !.error = "user errors"]
          [] OTHER ->
               [NoResponse EXCEPT
                  !.received = TRUE,
                  !.success = TRUE,
                  !.targets = [k \in 1..Len(staged) |->
                                 [url         |-> staged[k].url,
                                  resourceUrl |-> staged[k].resourceUrl,
                                  parameters  |-> staged[k].parameters,
                                  productId   |-> uploads[Len(staged) + 1 - k].productId,
                                  filename    |-> uploads[Len(staged) + 1 - k].filename]]]

\* intent "get-upload-urls"; shopify is what admin.graphql does: "ok",
\* "userErrors" (a non-empty userErrors list) or "throws"
ActionGetUploadUrls(uploads, shopify) ==
    LET stagedInput == [k \in 1..Len(uploads) |->
                          [filename |-> uploads[k].filename,
                           mimeType |-> uploads[k].mimeType,
                           fileSize |-> uploads[k].fileSize,
                           resource |-> "IMAGE"]]
        staged == StagedTargets(stagedInput)
    IN  CASE shopify = "throws" ->
               [NoResponse EXCEPT !.received = TRUE, !.error = "graphql error"]
          [] shopify = "userErrors" ->
               [NoResponse EXCEPT !.received = TRUE, !.error = "user errors"]
          [] OTHER ->
               [NoResponse EXCEPT
                  !.received = TRUE,
                  !.success = TRUE,
                  !.targets = [k \in 1..Len(staged) |->
                                 [url         |-> staged[k].url,
                                  resourceUrl |-> staged[k].resourceUrl,
                                  parameters  |-> staged[k].parameters,
                                  productId   |-> uploads[k].productId,
                                  filename    |-> uploads[k].filename]]]

\* one pass of the loop of intent "attach-media": the result pushed for one
\* attachment; shopify is what admin.graphql does for it: "ok",
\* "mediaUserErrors" or "throws"
AttachResult(attachment, shopify) ==
    CASE shopify = "ok" ->
           [filename |-> attachment.filename, productId |-> attachment.productId,
            success |-> TRUE, error |-> ""]
      [] shopify = "mediaUserErrors" ->
           [filename |-> attachment.filename, productId |-> attachment.productId,
            success |-> FALSE, error |-> "media user errors"]
      [] OTHER ->
           [filename |-> attachment.filename, productId |-> attachment.productId,
            success |-> FALSE, error |-> "graphql error"]

\* faulty variant: the try/catch is around the loop, so the first exception ends it
ActionAttachMediaAbortOnThrow(attachments, shopify) ==
    LET thrown == { k \in 1..Len(attachments) : shopify[k] = "throws" }
        n == IF thrown = {} THEN Len(attachments)
             ELSE (CHOOSE k \in thrown : \A q \in thrown : k <= q) - 1
    IN  [NoResponse EXCEPT
           !.received = TRUE,
           !.success = TRUE,
           !.results = [k \in 1..n |-> AttachResult(attachments[k], shopify[k])]]

\* intent "attach-media"; shopify[k] is what admin.graphql does for the k-th
\* attachment
ActionAttachMedia(attachments, shopify) ==
    [NoResponse EXCEPT
       !.received = TRUE,
       !.success = TRUE,
       !.results = [k \in 1..Len(attachments) |->
                      AttachResult(attachments[k], shopify[k])]]

ShopifyOutcomes == {"ok", "userErrors", "throws"}
MediaOutcomes == {"ok", "mediaUserErrors", "throws"}
TransferOutcomes == {"ok", "status", "threw"}

(***************************************************************************)
(* handleUpload: the orchestrator. Each action is the code that runs from  *)
(* one await to the next.                                                  *)
(***************************************************************************)
\* fetch("/app/api/upload", {method: "POST", body: {intent, ...}})
ControlCall(intent, body) ==
    [op |-> "control", intent |-> intent, slot |-> 0, body |-> body]

\* fetch(target.url, {method: "POST", body: uploadFormData}): the form data
\* holds the target's parameters, then the file
TransferCall(slot, target, file) ==
    [op |-> "transfer", intent |-> "", slot |-> slot,
     body |-> <<[url |-> target.url, parameters |-> target.parameters, file |-> file]>>]

Toast(message, isError, succeeded, failed) ==
    [message |-> message, isError |-> isError, succeeded |-> succeeded, failed |-> failed]

\* matchResults.filter((r) => r.matched && r.product)
MatchedPairs(results) ==
    SelectSeq(results, LAMBDA r : r.matched /\ r.product # NullProduct)

UploadRequestOf(r) ==
    [productId |-> r.product.id,
     filename  |-> r.image.name,
     mimeType  |-> IF r.image.type = "" THEN "image/png" ELSE r.image.type,
     fileSize  |-> r.image.size]

\* faulty variant: the success flag of the slot response is not checked
SlotRequestFailedUnchecked(data) == FALSE

\* if (!stagedData.success) throw ...
SlotRequestFailed(data) == ~data.success

\* faulty variant: a failed transfer ends the loop (break instead of going on)
NextIndexAbortOnFailure(idx, outcome) ==
    IF outcome = "ok" THEN idx + 1 ELSE Len(targets) + 1

\* faulty variant: a failed transfer is tried again
NextIndexRetryOnFailure(idx, outcome) ==
    IF outcome = "ok" THEN idx + 1 ELSE idx

\* new Error(stagedData.error || "Failed to get upload URLs")
ErrorMessage(data) ==
    IF data.error = "" THEN "Failed to get upload URLs" ELSE data.error

\* the for loop's i++: the slot after idx, whatever the outcome of idx
NextIndex(idx, outcome) == idx + 1

\* the first slot from j on whose file is in the file map (the loop skips,
\* with `continue`, a slot whose file is not found); Len + 1 when none
NextSlot(tgts, j) ==
    LET found == { k \in j..Len(tgts) : tgts[k].filename \in DOMAIN fileMapRef }
    IN  IF found = {} THEN Len(tgts) + 1
        ELSE CHOOSE k \in found : \A q \in found : k <= q

\* faulty variant: the status of the transfer response is not checked
AfterTransferUnchecked(succ, target, outcome) ==
    IF outcome # "threw"
    THEN Append(succ, [productId   |-> target.productId,
                       resourceUrl |-> target.resourceUrl,
                       filename    |-> target.filename])
    ELSE succ

\* successfulUploads after the transfer of target settled with outcome:
\* "ok" (uploadResponse.ok), "status" (a non-success status) or "threw"
AfterTransfer(succ, target, outcome) ==
    IF outcome = "ok"
    THEN Append(succ, [productId   |-> target.productId,
                       resourceUrl |-> target.resourceUrl,
                       filename    |-> target.filename])
    ELSE succ

\* faulty variant: the attach call is issued even with nothing to attach
AttachAlways(succ) == TRUE

\* if (successfulUploads.length > 0): phase 3 issues the attach call
AttachNeeded(succ) == Len(succ) > 0

\* the loop of phase 2 from slot j on, up to its next await, and phase 3 up to
\* its await when the loop is over; rest is what else is in flight
Continue(tgts, j, succ, tlog, rest) ==
    LET k     == NextSlot(tgts, j)
        tlog2 == tlog \o [x \in 1..(k - j) |-> "nofile"]
    IN  /\ transferLog' = tlog2
        /\ successfulUploads' = succ
        /\ i' = k
        /\ IF k <= Len(tgts)
           THEN LET call == TransferCall(k, tgts[k], fileMapRef[tgts[k].filename])
                IN  /\ pc' = "TransferringItems"
                    /\ uploadProgress' = Uploading(k, Len(tgts), tgts[k].filename)
                    /\ inFlight' = Append(rest, call)
                    /\ netLog' = Append(netLog, call)
                    /\ UNCHANGED <<toasts, isUploadingState>>
           ELSE IF AttachNeeded(succ)
           THEN LET call == ControlCall("attach-media", succ)
                IN  /\ pc' = "AttachingMedia"
                    /\ uploadProgress' = Attaching
                    /\ inFlight' = Append(rest, call)
                    /\ netLog' = Append(netLog, call)
                    /\ UNCHANGED <<toasts, isUploadingState>>
           ELSE /\ pc' = "Completed"
                /\ toasts' = Append(toasts,
                                    Toast("No images were uploaded successfully", TRUE, 0, 0))
                /\ isUploadingState' = FALSE
                /\ uploadProgress' = NoProgress
                /\ inFlight' = rest
                /\ UNCHANGED netLog

\* faulty variant: the outer catch without the finally block
CatchWithoutFinally(message, rest) ==
    /\ pc' = "Failed"
    /\ toasts' = Append(toasts, Toast(message, TRUE, 0, 0))
    /\ inFlight' = rest
    /\ UNCHANGED <<isUploadingState, uploadProgress>>

\* the outer catch and the finally block
CatchAndFinish(message, rest) ==
    /\ pc' = "Failed"
    /\ toasts' = Append(toasts, Toast(message, TRUE, 0, 0))
    /\ isUploadingState' = FALSE
    /\ uploadProgress' = NoProgress
    /\ inFlight' = rest

\* a click on the Upload button: handleUpload up to the await of the slot request
handleUpload ==
    /\ ~Returning
    /\ Len(images) > 0
    /\ ~UploadDisabled
    /\ LET matched  == MatchedPairs(matchResults)
           requests == [k \in 1..Len(matched) |-> UploadRequestOf(matched[k])]
           call     == ControlCall("get-upload-urls", requests)
       IN  /\ Len(matched) # 0
           /\ isUploadingState' = TRUE
           /\ uploadProgress' = Preparing
           /\ uploadResults' = <<>>
           /\ uploadRequests' = requests
           /\ inFlight' = Append(inFlight, call)
           /\ netLog' = <<call>>
    /\ pc' = "RequestingSlots"
    /\ stagedData' = NoResponse
    /\ targets' = <<>>
    /\ i' = 0
    /\ successfulUploads' = <<>>
    /\ attachData' = NoResponse
    /\ transferLog' = <<>>
    /\ toasts' = <<>>
    /\ UNCHANGED <<lib, uiVars>>

\* the slot request returned: the action ran on the server, the body is read
\* and checked, then the loop of phase 2 runs up to the first transfer
SlotsResponse ==
    /\ pc = "RequestingSlots"
    /\ Len(inFlight) > 0
    /\ inFlight[1].op = "control"
    /\ \E shopify \in ShopifyOutcomes :
          LET data == ActionGetUploadUrls(inFlight[1].body, shopify)
          IN  /\ stagedData' = data
              /\ IF SlotRequestFailed(data)
                 THEN /\ CatchAndFinish(ErrorMessage(data), Tail(inFlight))
                      /\ UNCHANGED <<targets, i, successfulUploads, transferLog, netLog>>
                 ELSE /\ targets' = data.targets
                      /\ Continue(data.targets, 1, <<>>, <<>>, Tail(inFlight))
    /\ UNCHANGED <<lib, uiVars, uploadResults, uploadRequests, attachData>>

\* the fetch of the slot request, or reading its body as JSON, throws
SlotsThrows ==
    /\ pc = "RequestingSlots"
    /\ Len(inFlight) > 0
    /\ inFlight[1].op = "control"
    /\ CatchAndFinish("fetch failed", Tail(inFlight))
    /\ UNCHANGED <<lib, uiVars, uploadResults, localVars, transferLog, netLog>>

\* the transfer of slot i settled; the loop goes on
TransferSettles ==
    /\ pc = "TransferringItems"
    /\ Len(inFlight) > 0
    /\ inFlight[1].op = "transfer"
    /\ \E outcome \in TransferOutcomes :
          Continue(targets, NextIndex(i, outcome),
                   AfterTransfer(successfulUploads, targets[i], outcome),
                   Append(transferLog, outcome), Tail(inFlight))
    /\ UNCHANGED <<lib, uiVars, uploadResults, uploadRequests, stagedData, targets,
                   attachData>>

\* the attach call returned: the action ran on the server, the body is read
AttachResponse ==
    /\ pc = "AttachingMedia"
    /\ Len(inFlight) > 0
    /\ inFlight[1].op = "control"
    /\ \E shopify \in [1..Len(inFlight[1].body) -> MediaOutcomes] :
          LET data      == ActionAttachMedia(inFlight[1].body, shopify)
              results   == data.results
              succeeded == Len(SelectSeq(results, LAMBDA r : r.success))
              failed    == Len(SelectSeq(results, LAMBDA r : ~r.success))
              successfulFilenames ==
                  { results[k].filename :
                       k \in { x \in 1..Len(results) : results[x].success } }
              kept == SelectSeq(images, LAMBDA img : img.name \notin successfulFilenames)
          IN  /\ attachData' = data
              /\ uploadResults' = results
              /\ toasts' = IF succeeded > 0
                           THEN Append(toasts, Toast("Successfully uploaded", FALSE,
                                                     succeeded, failed))
                           ELSE IF failed > 0
                           THEN Append(toasts, Toast("Failed to upload", TRUE, 0, failed))
                           ELSE toasts
              /\ images' = IF succeeded > 0 THEN kept ELSE images
              /\ matchResults' = IF succeeded > 0 THEN MatchEffect(kept) ELSE matchResults
    /\ pc' = "Completed"
    /\ isUploadingState' = FALSE
    /\ uploadProgress' = NoProgress
    /\ inFlight' = Tail(inFlight)
    /\ UNCHANGED <<lib, disk, errors, fileMapRef, uploadRequests, stagedData, targets, i,
                   successfulUploads, netLog, transferLog>>

\* the fetch of the attach call, or reading its body as JSON, throws
AttachThrows ==
    /\ pc = "AttachingMedia"
    /\ Len(inFlight) > 0
    /\ inFlight[1].op = "control"
    /\ CatchAndFinish("fetch failed", Tail(inFlight))
    /\ UNCHANGED <<lib, uiVars, uploadResults, localVars, transferLog, netLog>>

\* the invocation returns: its locals are gone, the page is idle again
Return ==
    /\ Returning
    /\ pc' = "Idle"
    /\ uploadRequests' = <<>>
    /\ stagedData' = NoResponse
    /\ targets' = <<>>
    /\ i' = 0
    /\ successfulUploads' = <<>>
    /\ attachData' = NoResponse
    /\ netLog' = <<>>
    /\ transferLog' = <<>>
    /\ toasts' = <<>>
    /\ UNCHANGED <<lib, uiVars, uploadResults, uploadProgress, isUploadingState, inFlight>>

Next ==
    \/ \E files \in SelectionsOf[disk] : processFiles(files)
    \/ ClearErrors
    \/ \E k \in 1..Len(images) : handleRemoveImage(images[k].name)
    \/ handleClearAll
    \/ handleUpload
    \/ SlotsResponse
    \/ SlotsThrows
    \/ TransferSettles
    \/ AttachResponse
    \/ AttachThrows
    \/ Return

Spec == Init /\ [][Next]_vars

(***************************************************************************)
(* Properties of the orchestrator.                                         *)
(***************************************************************************)
SlotCalls ==
    SelectSeq(netLog, LAMBDA c : c.op = "control" /\ c.intent = "get-upload-urls")
TransferCalls == SelectSeq(netLog, LAMBDA c : c.op = "transfer")
AttachCalls ==
    SelectSeq(netLog, LAMBDA c : c.op = "control" /\ c.intent = "attach-media")

Phase1Succeeded == stagedData.received /\ stagedData.success

\* phase 1 ended in a batch-level error: the body read says success = false,
\* or the request threw (the batch went through the catch with no body read)
Phase1Error ==
    \/ stagedData.received /\ ~stagedData.success
    \/ pc = "Failed" /\ ~stagedData.received

TransferFailed(k) == transferLog[k] \in {"status", "threw"}

AttachmentOf(target) ==
    [productId   |-> target.productId,
     resourceUrl |-> target.resourceUrl,
     filename    |-> target.filename]

\* the slots, in slot order, whose transfer returned a success status
OkSlots ==
    SelectSeq([k \in 1..Len(transferLog) |-> k], LAMBDA k : transferLog[k] = "ok")

\* C1: once a batch whose slot request succeeded has finished, uploadResults
\* holds one outcome for each pair submitted in phase 1, so the reported total
\* (its length) is the number of pairs submitted.
C1_OneOutcomePerSubmittedPair ==
    (Returning /\ Phase1Succeeded) =>
        /\ Len(uploadResults) = Len(uploadRequests)
        /\ \A k \in 1..Len(uploadRequests) :
              \E r \in 1..Len(uploadResults) :
                 /\ uploadResults[r].filename = uploadRequests[k].filename
                 /\ uploadResults[r].productId = uploadRequests[k].productId

\* C2: when phase 1 ends in a batch-level error, the batch has issued no
\* transfer and no attach call and never will (it is over, nothing is in
\* flight), the outcome list is empty, and exactly one error was surfaced,
\* with the reported message.
C2_Phase1ErrorAbortsBatch ==
    Phase1Error =>
        /\ pc = "Failed"
        /\ Len(netLog) = 1
        /\ Len(TransferCalls) = 0
        /\ Len(AttachCalls) = 0
        /\ inFlight = <<>>
        /\ uploadResults = <<>>
        /\ Len(toasts) = 1
        /\ toasts[1].isError
        /\ toasts[1].message =
              (IF stagedData.received THEN stagedData.error ELSE "fetch failed")

C2_Witness ==
    /\ pc = "Failed"
    /\ stagedData.received
    /\ ~stagedData.success
    /\ Len(uploadRequests) >= 2

\* C3: every item whose transfer failed (non-success status or exception) is
\* in the final outcome list, as a failed outcome with an error.
C3_TransferFailuresRecorded ==
    Returning =>
        \A k \in 1..Len(transferLog) :
           TransferFailed(k) =>
              \E r \in 1..Len(uploadResults) :
                 /\ uploadResults[r].filename = targets[k].filename
                 /\ uploadResults[r].productId = targets[k].productId
                 /\ ~uploadResults[r].success
                 /\ uploadResults[r].error # ""

\* C4: the attach call carries exactly the slots whose transfer returned a
\* success status, in slot order, each with the slot's productId, resourceUrl
\* and filename (the ones of the pair submitted at that position).
C4_AttachCarriesSuccessfulTransfers ==
    \A c \in 1..Len(AttachCalls) :
       /\ Len(AttachCalls[c].body) = Len(OkSlots)
       /\ \A n \in 1..Len(OkSlots) :
             /\ AttachCalls[c].body[n] = AttachmentOf(targets[OkSlots[n]])
             /\ AttachCalls[c].body[n].productId = uploadRequests[OkSlots[n]].productId
             /\ AttachCalls[c].body[n].filename = uploadRequests[OkSlots[n]].filename
             /\ AttachCalls[c].body[n].resourceUrl = stagedData.targets[OkSlots[n]].resourceUrl

C4_Witness ==
    /\ pc = "AttachingMedia"
    /\ Len(AttachCalls) = 1
    /\ Len(targets) >= 2
    /\ TransferFailed(1)
    /\ transferLog[2] = "ok"

\* C5: a transfer is attempted for every slot of phase 1, in slot order,
\* whatever the outcome of the earlier transfers.
C5_EverySlotTransferred ==
    /\ \A n \in 1..Len(TransferCalls) :
          /\ TransferCalls[n].slot = n
          /\ TransferCalls[n].body[1].url = targets[n].url
    /\ pc = "TransferringItems" => Len(TransferCalls) = i
    /\ (Phase1Succeeded /\ pc \in {"AttachingMedia", "Completed", "Failed"}) =>
          /\ Len(TransferCalls) = Len(targets)
          /\ Len(targets) = Len(uploadRequests)

C5_Witness ==
    /\ Returning
    /\ Len(targets) >= 2
    /\ TransferFailed(1)
    /\ Len(TransferCalls) = Len(targets)

\* C6: when the attach call as a whole throws, every item pending in that
\* call is in the outcome list, failed, with the caught error's message.
C6_AttachThrowMarksPendingFailed ==
    (pc = "Failed" /\ Len(AttachCalls) > 0) =>
        \A k \in 1..Len(successfulUploads) :
           \E r \in 1..Len(uploadResults) :
              /\ uploadResults[r].filename = successfulUploads[k].filename
              /\ uploadResults[r].productId = successfulUploads[k].productId
              /\ ~uploadResults[r].success
              /\ uploadResults[r].error = toasts[Len(toasts)].message

\* C7: the attach operation returns one result per submitted attachment, in
\* submission order, with the attachment's filename and productId, a success
\* or a failure with an error message; a failure of one attachment (reported
\* error or exception) leaves the later ones processed.
C7_AttachOneResultPerAttachment ==
    attachData.received =>
        /\ Len(AttachCalls) = 1
        /\ Len(attachData.results) = Len(AttachCalls[1].body)
        /\ \A k \in 1..Len(AttachCalls[1].body) :
              /\ attachData.results[k].filename = AttachCalls[1].body[k].filename
              /\ attachData.results[k].productId = AttachCalls[1].body[k].productId
              /\ attachData.results[k].success \/ attachData.results[k].error # ""

C7_Witness ==
    /\ attachData.received
    /\ Len(attachData.results) >= 2
    /\ attachData.results[1].error = "graphql error"
    /\ attachData.results[2].success

\* the phase order as the state machine of the design draws it
ClaimedPhaseOrder ==
    { <<"Idle", "RequestingSlots">>,
      <<"RequestingSlots", "Failed">>,
      <<"RequestingSlots", "TransferringItems">>,
      <<"TransferringItems", "AttachingMedia">>,
      <<"AttachingMedia", "Completed">>,
      <<"Completed", "Idle">>,
      <<"Failed", "Idle">> }

\* the phase order with the two paths the drawing leaves out: no attach
\* phase when no transfer succeeded, and a throwing attach call
ActualPhaseOrder ==
    ClaimedPhaseOrder \cup
        { <<"TransferringItems", "Completed">>, <<"AttachingMedia", "Failed">> }

\* the parts of C8 that hold as stated: transfers only after a successful
\* slot response, the attach call only after every slot's transfer settled
C8_Ordering ==
    /\ Len(TransferCalls) > 0 => Phase1Succeeded
    /\ Len(AttachCalls) > 0 =>
          /\ Len(transferLog) = Len(targets)
          /\ Len(TransferCalls) = Len(targets)
          /\ \E k \in 1..Len(transferLog) : transferLog[k] = "ok"

\* C8 (as stated): every batch follows Idle -> RequestingSlots -> (Failed |
\* TransferringItems -> AttachingMedia -> Completed): the batch is Completed
\* only after the attach phase.
C8_PhaseOrderAsStated ==
    [][pc' # pc => <<pc, pc'>> \in ClaimedPhaseOrder]_vars

\* C8 (amended): every batch follows Idle -> RequestingSlots -> (Failed |
\* TransferringItems -> (Completed | AttachingMedia -> (Completed | Failed))):
\* no transfer before the slot request returned successfully, the attach call
\* only after the transfer of every slot settled and only when one succeeded,
\* the batch Completed after the attach call returned or, with no attach call,
\* right after the transfer loop when no transfer succeeded.
C8_PhaseOrder ==
    /\ [](/\ C8_Ordering
          /\ pc = "Completed" =>
                \/ Len(AttachCalls) = 1 /\ attachData.received
                \/ /\ Len(AttachCalls) = 0
                   /\ Len(transferLog) = Len(targets)
                   /\ \A k \in 1..Len(transferLog) : transferLog[k] # "ok")
    /\ [][pc' # pc => <<pc, pc'>> \in ActualPhaseOrder]_vars

C8_Witness ==
    /\ pc = "Completed"
    /\ Len(AttachCalls) = 0
    /\ Len(targets) >= 2
    /\ Len(TransferCalls) = Len(targets)

\* C9: no retry: in one batch the slot request is issued at most once, the
\* transfer of each slot at most once (also after it failed), the attach call
\* at most once.
C9_NoRetry ==
    /\ Len(SlotCalls) <= 1
    /\ Len(AttachCalls) <= 1
    /\ \A m, n \in 1..Len(TransferCalls) :
          m # n => TransferCalls[m].slot # TransferCalls[n].slot
    /\ Len(netLog) <= Len(uploadRequests) + 2

C9_Witness ==
    /\ Returning
    /\ \E k \in 1..Len(transferLog) : transferLog[k] = "threw"
    /\ Len(AttachCalls) = 1
    /\ Len(SlotCalls) = 1

\* C10: at most one network operation of the orchestrator is in flight, and
\* while a batch is in flight the Upload button is disabled, so no second
\* batch starts.
C10_OneOperationInFlight ==
    /\ Len(inFlight) <= 1
    /\ pc \in {"RequestingSlots", "TransferringItems", "AttachingMedia"} =>
          /\ Len(inFlight) = 1
          /\ UploadDisabled
          /\ ~ENABLED handleUpload
    /\ pc \in {"Idle", "Completed", "Failed"} => inFlight = <<>>

C10_Witness ==
    /\ pc = "TransferringItems"
    /\ i = 2
    /\ Len(inFlight) = 1
    /\ matchedCount > 0

\* a batch is in flight: phase 1 has started and the batch has not reached
\* its terminal state
BatchInFlight == pc \in {"RequestingSlots", "TransferringItems", "AttachingMedia"}

\* C11: while a batch is in flight the filename -> file mapping that phase 2
\* consults is read-only: no drop or file input handled during that interval
\* changes fileMapRef.
C11_FileMapReadOnlyInFlight ==
    [][BatchInFlight =>
          ~\E files \in SelectionsOf[disk] :
               processFiles(files) /\ fileMapRef' # fileMapRef]_vars

\* C12: on a successful slot request the k-th returned slot carries the
\* productId and the filename of the k-th requested item, for every index k
\* of the returned slot list.
C12_SlotsFollowRequestOrder ==
    stagedData.received /\ stagedData.success =>
        /\ Len(stagedData.targets) <= Len(uploadRequests)
        /\ \A k \in 1..Len(stagedData.targets) :
              /\ stagedData.targets[k].productId = uploadRequests[k].productId
              /\ stagedData.targets[k].filename = uploadRequests[k].filename

C12_Witness ==
    /\ stagedData.received /\ stagedData.success
    /\ Len(stagedData.targets) = 2
    /\ uploadRequests[1].productId # uploadRequests[2].productId
    /\ uploadRequests[1].filename # uploadRequests[2].filename

\* the files of a selection that fail validateImageFile, in selection order
Rejected(files) == SelectSeq(files, LAMBDA f : ~validateImageFile(f).valid)

\* what a step does that handles the selection files, as C13 states it
SelectionHandled(files) ==
    LET rejected == Rejected(files)
    IN  /\ rejected # <<>> =>
              errors' = [k \in 1..Len(rejected) |->
                           [name  |-> rejected[k].name,
                            error |-> validateImageFile(rejected[k]).error]]
        /\ \A k \in 1..Len(files) :
              IF validateImageFile(files[k]).valid
              THEN /\ \E j \in 1..Len(images') : images'[j].name = files[k].name
                   /\ files[k].name \in DOMAIN fileMapRef'
              ELSE \A j \in 1..Len(images') : images'[j].file # files[k]
        /\ inFlight' = inFlight
        /\ netLog' = netLog
        /\ pc' = pc

\* a step that can be the handling of the selection files: what it adds to the
\* image list and to the file map, and the errors it sets, come from files
StepOf(files) ==
    LET names == { files[k].name : k \in 1..Len(files) }
        given == { files[k] : k \in 1..Len(files) }
    IN  /\ images' # images \/ errors' # errors \/ fileMapRef' # fileMapRef
        /\ Len(images') >= Len(images)
        /\ \A j \in 1..Len(images') : j > Len(images) => images'[j].file \in given
        /\ \A n \in DOMAIN fileMapRef' :
              \/ fileMapRef'[n] \in given
              \/ n \in DOMAIN fileMapRef /\ fileMapRef'[n] = fileMapRef[n]
        /\ errors' # errors => \A e \in 1..Len(errors') : errors'[e].name \in names

\* C13: a validation failure never aborts the selection and precedes any
\* network activity: handling a selection leaves one error entry per file that
\* fails validateImageFile and keeps that file out of the image list, every
\* file of the selection that passes is listed, and no network call is issued.
\* (StepOf only spares evaluating processFiles for the selections that cannot
\* have produced the step: processFiles(files) implies StepOf(files).)
C13_ValidationNeverAborts ==
    [][\A files \in SelectionsOf[disk] :
          StepOf(files) /\ processFiles(files) => SelectionHandled(files)]_vars

\* a selection of b.bmp and a.png has just been handled from the empty list
C13_Witness ==
    /\ pc = "Idle" /\ netLog = <<>>
    /\ Len(errors) = 1 /\ errors[1].name = FileBmp.name
    /\ Len(images) = 1 /\ images[1].file = FileA
    /\ DOMAIN fileMapRef = {FileA.name}

(***************************************************************************)
(* The functions of app/lib/matching.ts on their own: a call is drawn with *)
(* its arguments from bounded sets, then the function is applied.          *)
(***************************************************************************)
SeqsOf(S, n) == UNION { [1..m -> S] : m \in 0..n }

\* file names: a base name followed by an ending
StemChars == {"a", "A", "."}
Stems == SeqsOf(StemChars, MaxStemLen)
Endings ==
    { <<>>,
      <<".", "p", "n", "g">>, <<".", "P", "N", "G">>, <<".", "P", "n", "g">>,
      <<".", "j", "p", "g">>, <<".", "J", "P", "G">>,
      <<".", "j", "p", "e", "g">>, <<".", "J", "p", "E", "g">>,
      <<".", "w", "e", "b", "p">>, <<".", "W", "E", "B", "P">>,
      <<".", "g", "i", "f">>, <<".", "G", "I", "F">>,
      <<"p", "n", "g">>, <<"-", "j", "p", "g">>, <<"x", "G", "I", "F">>,
      <<".", "b", "m", "p">>, <<".", "p", "n">>,
      <<".", "p", "n", "g", ".", "b">> }
LibNames == { stem \o ending : stem \in Stems, ending \in Endings }

\* file sizes around MAX_FILE_SIZE_BYTES
LibSizes ==
    { 0, MAX_FILE_SIZE_BYTES - 1, MAX_FILE_SIZE_BYTES, MAX_FILE_SIZE_BYTES + 1,
      2 * MAX_FILE_SIZE_BYTES }

\* image lists and product lists; products p1 and p2 have handles that are
\* equal after lower-casing
LibImages ==
    { [name |-> n, size |-> 1024, type |-> "image"] :
        n \in { <<"a", ".", "p", "n", "g">>, <<"A", ".", "P", "N", "G">>,
                <<"b", ".", "j", "p", "g">>, <<"c", ".", "g", "i", "f">> } }
LibProducts ==
    { [id |-> "gid://Product/1", handle |-> <<"a">>],
      [id |-> "gid://Product/2", handle |-> <<"A">>],
      [id |-> "gid://Product/3", handle |-> <<"b">>] }

\* extractHandleFromFilename on two file names that differ at most in letter case
ExtractCalls ==
    { [LibIdle EXCEPT !.op = "extract", !.args = pair] :
        pair \in { q \in LibNames \X LibNames : ToLowerCase(q[1]) = ToLowerCase(q[2]) } }
ValidateCalls ==
    { [LibIdle EXCEPT !.op = "validate", !.args = [name |-> n, size |-> z]] :
        n \in LibNames, z \in LibSizes }
MatchCalls ==
    { [LibIdle EXCEPT !.op = "match", !.args = [images |-> imgs, products |-> prods]] :
        imgs \in SeqsOf(LibImages, MaxMatchFiles),
        prods \in SeqsOf(LibProducts, MaxMatchProducts) }

\* groupMatchResults on the results of a match
GroupCalls ==
    { [LibIdle EXCEPT !.op = "group", !.args = res] :
        res \in { matchImagesToProducts(imgs, prods).results :
                    imgs \in SeqsOf(LibImages, MaxMatchFiles),
                    prods \in SeqsOf(LibProducts, MaxMatchProducts) } }

\* matchImagesToProducts called again and again: the inputs of the calls are
\* first, first, other, first
RematchInputs ==
    { [images |-> imgs, products |-> prods] :
        imgs \in SeqsOf(LibImages, MaxRematchLen),
        prods \in SeqsOf(LibProducts, MaxRematchLen) }
RematchCalls ==
    { [LibIdle EXCEPT !.op = "rematch", !.args = [first |-> x, other |-> y]] :
        x \in RematchInputs, y \in RematchInputs }
Schedule(args) == <<args.first, args.first, args.other, args.first>>

indexVars == <<disk, images, matchResults, uploadResults, errors, uploadProgress,
               isUploadingState, fileMapRef, pc, uploadRequests, stagedData,
               targets, i, successfulUploads, attachData, inFlight, netLog,
               transferLog, toasts>>

InitLib ==
    /\ disk = {}
    /\ images = <<>>
    /\ matchResults = <<>>
    /\ uploadResults = <<>>
    /\ errors = <<>>
    /\ uploadProgress = NoProgress
    /\ isUploadingState = FALSE
    /\ fileMapRef = << >>
    /\ pc = "Idle"
    /\ uploadRequests = <<>>
    /\ stagedData = NoResponse
    /\ targets = <<>>
    /\ i = 0
    /\ successfulUploads = <<>>
    /\ attachData = NoResponse
    /\ inFlight = <<>>
    /\ netLog = <<>>
    /\ transferLog = <<>>
    /\ toasts = <<>>
    /\ \/ lib \in ExtractCalls
       \/ lib \in ValidateCalls
       \/ lib \in MatchCalls
       \/ lib \in RematchCalls
       \/ lib \in GroupCalls

CallExtractHandleFromFilename ==
    /\ lib.op = "extract" /\ ~lib.done
    /\ lib' = [lib EXCEPT !.value = <<extractHandleFromFilename(lib.args[1]),
                                      extractHandleFromFilename(lib.args[2])>>,
                          !.done = TRUE]
    /\ UNCHANGED indexVars

CallValidateImageFile ==
    /\ lib.op = "validate" /\ ~lib.done
    /\ lib' = [lib EXCEPT !.value = validateImageFile(lib.args), !.done = TRUE]
    /\ UNCHANGED indexVars

CallMatchImagesToProducts ==
    /\ lib.op = "match" /\ ~lib.done
    /\ lib' = [lib EXCEPT !.value = matchImagesToProducts(lib.args.images,
                                                          lib.args.products),
                          !.done = TRUE]
    /\ UNCHANGED indexVars

\* the products of the calls made so far, oldest first
RECURSIVE ProductsOf(_)
ProductsOf(made) ==
    IF made = <<>> THEN <<>>
    ELSE ProductsOf(SubSeq(made, 1, Len(made) - 1)) \o made[Len(made)].input.products

\* faulty variant: productsByHandle is kept from one call to the next
MatchOnceRetainingMap(input, made) ==
    matchImagesToProducts(input.images, ProductsOf(made) \o input.products)

\* one call of matchImagesToProducts after the calls made: productsByHandle is
\* created by the call, nothing of the earlier calls is left
MatchOnce(input, made) == matchImagesToProducts(input.images, input.products)

\* the next call of the schedule; lib.value holds the calls made, each with its
\* input and the summary returned
CallMatchAgain ==
    /\ lib.op = "rematch" /\ ~lib.done
    /\ LET input == Schedule(lib.args)[Len(lib.value) + 1]
       IN  lib' = [lib EXCEPT
                     !.value = Append(@, [input   |-> input,
                                          summary |-> MatchOnce(input, lib.value)]),
                     !.done = (Len(lib.value) + 1 = Len(Schedule(lib.args)))]
    /\ UNCHANGED indexVars

CallGroupMatchResults ==
    /\ lib.op = "group" /\ ~lib.done
    /\ lib' = [lib EXCEPT !.value = groupMatchResults(lib.args), !.done = TRUE]
    /\ UNCHANGED indexVars

NextLib ==
    \/ CallExtractHandleFromFilename
    \/ CallValidateImageFile
    \/ CallMatchImagesToProducts
    \/ CallMatchAgain
    \/ CallGroupMatchResults

LibSpec == InitLib /\ [][NextLib]_vars

Extracted == lib.op = "extract" /\ lib.done
Validated == lib.op = "validate" /\ lib.done
Matched == lib.op = "match" /\ lib.done

\* the positions of the products whose lower-cased handle is the key derived
\* from the name of the k-th image of the call
Candidates(k) ==
    { j \in 1..Len(lib.args.products) :
        ToLowerCase(lib.args.products[j].handle)
            = extractHandleFromFilename(lib.args.images[k].name) }

\* C14: when several products have handles that are equal after lower-casing,
\* a file whose derived key is that handle is matched to the last of them in
\* the order of the product list.
C14_LastProductWins ==
    Matched =>
        \A k \in 1..Len(lib.args.images) :
            Candidates(k) # {} =>
                /\ k \in DOMAIN lib.value.results
                /\ \E j \in Candidates(k) :
                      /\ \A q \in Candidates(k) : q <= j
                      /\ lib.value.results[k].product = lib.args.products[j]

\* three products share the key of the first image, first and last differ
C14_Witness ==
    /\ Matched
    /\ Len(lib.args.images) >= 1
    /\ Cardinality(Candidates(1)) = 3
    /\ lib.args.products[1] # lib.args.products[3]
    /\ lib.value.results[1].product = lib.args.products[3]

\* C15: the match has exactly one result per input file, in input order; a
\* result is matched exactly when its product is present, and a present
\* product is one of the list whose lower-cased handle is the key derived from
\* the file's name.
C15_OneResultPerFile ==
    Matched =>
        /\ Len(lib.value.results) = Len(lib.args.images)
        /\ \A k \in 1..Len(lib.value.results) :
              LET r == lib.value.results[k]
              IN  /\ r.image = lib.args.images[k]
                  /\ r.handle = extractHandleFromFilename(lib.args.images[k].name)
                  /\ r.matched <=> r.product # NullProduct
                  /\ r.product # NullProduct =>
                        /\ \E j \in 1..Len(lib.args.products) :
                              lib.args.products[j] = r.product
                        /\ ToLowerCase(r.product.handle) = r.handle

\* c.gif without a product, then A.PNG with one
C15_Witness ==
    /\ Matched
    /\ Len(lib.value.results) = 2
    /\ ~lib.value.results[1].matched
    /\ lib.value.results[2].matched
    /\ lib.args.images[1] # lib.args.images[2]
    /\ lib.args.images[2].name # ToLowerCase(lib.args.images[2].name)

\* C16: the summary of a match satisfies total = matched + unmatched, total is
\* the number of input files and matched the number of results with
\* matched = true.
C16_SummaryCounts ==
    Matched =>
        /\ lib.value.total = lib.value.matched + lib.value.unmatched
        /\ lib.value.total = Len(lib.args.images)
        /\ lib.value.matched =
              Cardinality({ k \in DOMAIN lib.value.results :
                              lib.value.results[k].matched })
        /\ lib.value.unmatched >= 0

\* two files matched to the same product
C16_Witness ==
    /\ Matched
    /\ lib.value.total = 2
    /\ lib.value.matched = 2
    /\ lib.value.unmatched = 0
    /\ lib.value.results[1].product = lib.value.results[2].product
    /\ lib.args.images[1] # lib.args.images[2]

\* the whitelisted extensions (a literal '.' and the letters, in any case) the
\* name ends with
ExtensionsEnding(name) ==
    { a \in 1..Len(SUPPORTED_EXTENSIONS) :
        /\ Len(name) >= Len(SUPPORTED_EXTENSIONS[a])
        /\ ToLowerCase(Suffix(name, Len(SUPPORTED_EXTENSIONS[a])))
              = SUPPORTED_EXTENSIONS[a] }

\* C17: two file names that differ only in letter case and end in a
\* whitelisted extension have the same key: the lower-cased name without the
\* extension.
C17_KeyIgnoresCase ==
    Extracted =>
        \A a \in ExtensionsEnding(lib.args[1]) :
            /\ lib.value[1] = lib.value[2]
            /\ lib.value[1] =
                  ToLowerCase(SubSeq(lib.args[1], 1,
                                     Len(lib.args[1]) - Len(SUPPORTED_EXTENSIONS[a])))

\* the two names differ in the case of the base name and of the extension
C17_Witness ==
    /\ Extracted
    /\ ExtensionsEnding(lib.args[1]) # {}
    /\ Len(lib.args[1]) > 5
    /\ lib.args[1][1] # lib.args[2][1]
    /\ lib.args[1][Len(lib.args[1])] # lib.args[2][Len(lib.args[2])]
    /\ lib.value[1] = lib.value[2]

\* C18: the key loses characters only when the file name ends with a
\* whitelisted extension (a literal '.' followed by png, jpg, jpeg, webp or
\* gif, in any case); for every other file name the key is the whole name
\* lower-cased.
C18_OnlyExtensionsRemoved ==
    Extracted /\ ExtensionsEnding(lib.args[1]) = {} =>
        lib.value[1] = ToLowerCase(lib.args[1])

\* the extension validateImageFile looks at: the part of the name after its
\* last '.', lower-cased, is one of the whitelist
Whitelisted(name) == InExtensions(<<".">> \o ToLowerCase(LastSegment(name)))

\* C19: the extension is checked before the size and the first failure wins:
\* a file whose extension is not whitelisted is rejected with the
\* unsupported-type error whatever its size, also above the ceiling.
C19_ExtensionCheckedFirst ==
    Validated /\ ~Whitelisted(lib.args.name) =>
        /\ ~lib.value.valid
        /\ lib.value.error = "Unsupported file type"

\* a .bmp name above the ceiling
C19_Witness ==
    /\ Validated
    /\ ~Whitelisted(lib.args.name)
    /\ Len(lib.args.name) > 4
    /\ Suffix(lib.args.name, 4) = <<".", "b", "m", "p">>
    /\ lib.args.size > 20 * 1024 * 1024
    /\ lib.value.error = "Unsupported file type"

\* C20: a file with a whitelisted extension is accepted exactly when its size
\* is at most 20 * 1024 * 1024 bytes; a larger one is rejected with the
\* too-large error.
C20_SizeCeiling ==
    Validated /\ Whitelisted(lib.args.name) =>
        /\ lib.value.valid <=> lib.args.size <= 20 * 1024 * 1024
        /\ lib.args.size > 20 * 1024 * 1024 =>
              lib.value.error = "File too large"

\* exactly 20 * 1024 * 1024 bytes, accepted
C20_Witness ==
    /\ Validated
    /\ Whitelisted(lib.args.name)
    /\ lib.args.size = 20 * 1024 * 1024
    /\ lib.value.valid

Grouped == lib.op = "group" /\ lib.done

\* the positions of the results of the call whose matched flag is flag, and
\* the rank of position k among them
PositionsOf(flag) == { k \in 1..Len(lib.args) : lib.args[k].matched = flag }
RankOf(k, flag) == Cardinality({ j \in PositionsOf(flag) : j <= k })

\* C22: groupMatchResults partitions its input: every result is in exactly one
\* group, the matched ones in 'matched' and all others in 'unmatched', and
\* each group keeps the input order.
C22_GroupsPartition ==
    Grouped =>
        \A flag \in BOOLEAN :
            LET group == IF flag THEN lib.value.matched ELSE lib.value.unmatched
            IN  /\ Len(group) = Cardinality(PositionsOf(flag))
                /\ \A k \in PositionsOf(flag) : group[RankOf(k, flag)] = lib.args[k]

\* two different matched results, kept in input order
C22_Witness ==
    /\ Grouped
    /\ Len(lib.args) = 2
    /\ lib.args[1] # lib.args[2]
    /\ lib.value.matched = lib.args
    /\ lib.value.unmatched = <<>>

(***************************************************************************)
(* Termination of a batch: every fetch of the orchestrator eventually      *)
(* returns or throws.                                                      *)
(***************************************************************************)
NetworkSettles ==
    \/ SlotsResponse
    \/ SlotsThrows
    \/ TransferSettles
    \/ AttachResponse
    \/ AttachThrows

FairSpec == Spec /\ WF_vars(NetworkSettles)

\* C23: every started batch terminates, whatever each network call does: it
\* reaches Completed or Failed (an exception ends in the outer catch, none
\* escapes), and there the uploading flag is false, the progress text empty
\* and nothing is in flight.
C23_BatchTerminates ==
    /\ [](Returning => ~isUploading /\ uploadProgress = NoProgress /\ inFlight = <<>>)
    /\ BatchInFlight ~> Returning

\* a batch that went through a throwing transfer and a throwing attach call
C23_Witness ==
    /\ pc = "Failed"
    /\ Len(AttachCalls) = 1
    /\ \E k \in 1..Len(transferLog) : transferLog[k] = "threw"
    /\ ~isUploading
    /\ uploadProgress = NoProgress

\* the positions of the image list that show the file name
EntriesNamed(name) == { j \in 1..Len(images) : images[j].name = name }

\* C24: the file transferred for a slot is the File held by the image entry
\* listed under the slot's file name (the entry that was shown and matched);
\* selecting again a file with a listed name does not change it.
C24_TransfersListedFile ==
    \A n \in 1..Len(TransferCalls) :
        LET call == TransferCalls[n]
            name == targets[call.slot].filename
        IN  Cardinality(EntriesNamed(name)) = 1 =>
                \A j \in EntriesNamed(name) : call.body[1].file = images[j].file

\* every listed entry is a valid file, listed under the name of its File
ListedAreValid ==
    \A j \in 1..Len(images) :
        /\ validateImageFile(images[j].file).valid
        /\ images[j].name = images[j].file.name

\* C25: the image list never holds two entries with the same file name, and
\* every entry passed validateImageFile when it was added.
C25_ListedNamesUniqueAndValid ==
    /\ \A j, k \in 1..Len(images) : images[j].name = images[k].name => j = k
    /\ ListedAreValid

\* the step that finishes a batch
BatchFinishes == BatchInFlight /\ pc' \in {"Completed", "Failed"}

\* after the step: the attach results read (none when no attach call returned)
\* and the file names with a successful attach result
AttachResultsRead == IF attachData'.received THEN attachData'.results ELSE <<>>
SuccessfulFilenames ==
    { AttachResultsRead[r].filename :
        r \in { x \in 1..Len(AttachResultsRead) : AttachResultsRead[x].success } }

\* after the step: the submitted pairs (slots) with a successful attach result;
\* the r-th attach result is the one of the r-th slot transferred successfully
SucceededPairs ==
    LET okSlots == SelectSeq([k \in 1..Len(transferLog') |-> k],
                             LAMBDA k : transferLog'[k] = "ok")
    IN  { okSlots[r] : r \in { x \in 1..Len(AttachResultsRead) :
                                 x <= Len(okSlots) /\ AttachResultsRead[x].success } }
FailedPairsNamed(name) ==
    { k \in 1..Len(uploadRequests) :
        uploadRequests[k].filename = name /\ k \notin SucceededPairs }

Min(a, b) == IF a <= b THEN a ELSE b

\* the first half of C26 alone: the finishing step removes exactly the entries
\* whose file name has a successful attach result
RemovedByFilename ==
    [][BatchFinishes =>
          images' = SelectSeq(images, LAMBDA img : img.name \notin SuccessfulFilenames)]_vars

\* C26: the step that finishes a batch removes exactly the images whose file
\* name has a successful attach result; the image of every pair whose transfer
\* or attach failed stays listed, so does every image that was not submitted,
\* and with no successful attach result the list is unchanged.
C26_OnlySucceededImagesRemoved ==
    [][BatchFinishes =>
          /\ images' = SelectSeq(images, LAMBDA img : img.name \notin SuccessfulFilenames)
          /\ \A j \in 1..Len(images) :
                LET name == images[j].name
                IN  Cardinality({ x \in 1..Len(images') : images'[x].name = name })
                       >= Min(Cardinality(EntriesNamed(name)),
                              Cardinality(FailedPairsNamed(name)))
          /\ \A j \in 1..Len(images) :
                (\A k \in 1..Len(uploadRequests) :
                    uploadRequests[k].filename # images[j].name)
                   => \E x \in 1..Len(images') : images'[x] = images[j]
          /\ SuccessfulFilenames = {} => images' = images]_vars

====
